---- MODULE Spec2Model ----
(***************************************************************************)
(* frnsc-sqlite: the SqlDb / SqlStatement adapter of src/lib.rs over the   *)
(* sqlite crate.                                                           *)
(*                                                                         *)
(* The adapter's own code (SqliteDB::virtual_file, SqliteDB::list_tables,  *)
(* the SqliteStatement methods) is translated operation by operation.      *)
(* The wrapped engine is not part of the repository; it appears here as    *)
(* the Engine operators, written from the SQLite C API documentation of    *)
(* the calls the adapter makes (sqlite3_step, the sqlite3_column family,   *)
(* sqlite3_open_v2, the LIKE operator).                                    *)
(***************************************************************************)
EXTENDS Integers, Sequences, FiniteSets, TLC

VARIABLES
    inv,        \* the virtual_file invocations: locals, position, result
    fs,         \* the temp directory: path -> bytes of the file
    now,        \* SystemTime::now(), in nanoseconds since the epoch
    faults,     \* whether the environment injects I/O and open failures
    autoreset,  \* the engine build: sqlite3_step resets a finished statement
    sql,        \* the text given to prepare ("" before prepare)
    prep,       \* per handle: what prepare returned
    stmt,       \* per handle: the engine statement of the cursor
    lastNext,   \* per handle: what the latest next() returned
    lastRead,   \* per handle: index and result of the latest read() since next()
    nextCalls,  \* next() calls made on the cursor
    doneSeen,   \* per handle: some next() has returned Ok(false)
    afterDone,  \* per handle: the latest next() was called after an Ok(false)
    prepCols,   \* per handle: column_names() as of prepare
    catalog,    \* list_tables: the schema catalog of the wrapped connection
    tables      \* list_tables: what it returned

vars == <<inv, fs, now, faults, autoreset, sql, prep, stmt, lastNext, lastRead,
          nextCalls, doneSeen, afterDone, prepCols, catalog, tables>>

matVars == <<inv, fs, now>>
curVars == <<sql, prep, stmt, lastNext, lastRead, nextCalls, doneSeen,
             afterDone, prepCols>>
tabVars == <<catalog, tables>>

\* ------------------------------------------------------------------ bounds

\* Longest schema catalog drawn for list_tables.
MaxCatalog == 3
\* next() calls made on one cursor beyond the rows of its result set.
MaxExtraNext == 2
\* Short reads (fewer bytes than the buffer holds and the file has left) the
\* virtual file may return before it returns all it can.
MaxShortReads == 3

\* ------------------------------------------------------- program constants

\* vec![0; 4096]
BufSize == 4096
\* Duration::subsec_nanos: the nanoseconds within the current second.
NanosPerSec == 1000000000

\* --------------------------------------------------------------- results

\* ForensicResult<T>: Ok(v) | Err(ForensicError::Io | ForensicError::Other(msg)).
NoneR == [tag |-> "none"]
OkR(v) == [tag |-> "ok", val |-> v]
ErrR(k, m) == [tag |-> "err", kind |-> k, msg |-> m]

IsOk(r) == r.tag = "ok"
IsErr(r) == r.tag = "err"

\* ColumnValue: Binary | Float | Integer | String | Null; every value is
\* written as its text.
Cell(t, v) == [type |-> t, val |-> v]
NullCell == Cell("Null", "")

\* ------------------------------------------------------- SQL text (source)

SelectUsersSql == "SELECT name, age FROM users;"
ListTablesSql == "SELECT name FROM sqlite_schema WHERE type ='table' AND name NOT LIKE 'sqlite_%';"
BadSql == "SELEC name FROM"

\* The LIKE pattern of the list_tables query, one character per element.
ListTablesPattern == <<"s", "q", "l", "i", "t", "e", "_", "%">>
ListTablesType == "table"

\* ----------------------------------------------------------------- engine

\* ASCII case folding as LIKE applies it (only the letters the names use).
Lower(c) ==
    CASE c = "S" -> "s" [] c = "Q" -> "q" [] c = "L" -> "l"
      [] c = "I" -> "i" [] c = "T" -> "t" [] c = "E" -> "e"
      [] c = "X" -> "x" [] OTHER -> c

\* SQL LIKE: % matches any run of characters, _ matches exactly one
\* character, every other character matches itself ignoring ASCII case.
RECURSIVE EngineLike(_, _)
EngineLike(p, s) ==
    IF p = <<>> THEN s = <<>>
    ELSE IF Head(p) = "%"
         THEN EngineLike(Tail(p), s) \/ (s # <<>> /\ EngineLike(p, Tail(s)))
    ELSE IF s = <<>> THEN FALSE
    ELSE IF Head(p) = "_" THEN EngineLike(Tail(p), Tail(s))
    ELSE Lower(Head(p)) = Lower(Head(s)) /\ EngineLike(Tail(p), Tail(s))

\* A prepared statement of the engine: result columns, the rows the query
\* yields, and the position of sqlite3_step ("ready" after prepare, "row"
\* while positioned on rows[pos], "done" after SQLITE_DONE).
NoStmt == [state |-> "none", cols |-> <<>>, rows |-> <<>>, pos |-> 0]
MkStmt(cols, rows) == [state |-> "ready", cols |-> cols, rows |-> rows, pos |-> 0]

UsersName == <<"u", "s", "e", "r", "s">>

HasUsers(db) ==
    \E k \in 1..Len(db.catalog) :
        db.catalog[k].type = "table" /\ db.catalog[k].name = UsersName

\* The rows of the list_tables query over the schema catalog, in catalog order.
RECURSIVE EngineSchemaRows(_)
EngineSchemaRows(cat) ==
    IF cat = <<>> THEN <<>>
    ELSE LET e == Head(cat)
             rest == EngineSchemaRows(Tail(cat))
         IN IF e.type = ListTablesType /\ ~EngineLike(ListTablesPattern, e.name)
            THEN <<<<Cell("String", e.name)>>>> \o rest
            ELSE rest

\* Connection::prepare.
EnginePrepare(db, statement) ==
    IF db.kind # "db" THEN ErrR("engine", "file is not a database")
    ELSE IF statement = SelectUsersSql
         THEN IF HasUsers(db) THEN OkR(MkStmt(<<"name", "age">>, db.users))
              ELSE ErrR("engine", "no such table: users")
    ELSE IF statement = ListTablesSql
         THEN OkR(MkStmt(<<"name">>, EngineSchemaRows(db.catalog)))
    ELSE ErrR("engine", "syntax error")

\* Statement::next, i.e. sqlite3_step.  Called on a statement that already
\* returned SQLITE_DONE, sqlite3_step resets the statement and runs it again
\* from its first row; a library built with SQLITE_OMIT_AUTORESET returns
\* SQLITE_MISUSE instead.
EngineStep(st, reset) ==
    IF st.state = "done" /\ ~reset
    THEN [stmt |-> st, res |-> ErrR("engine", "misuse")]
    ELSE LET p == IF st.state = "row" THEN st.pos ELSE 0
         IN IF p < Len(st.rows)
            THEN [stmt |-> [st EXCEPT !.state = "row", !.pos = p + 1],
                  res |-> OkR("Row")]
            ELSE [stmt |-> [st EXCEPT !.state = "done", !.pos = 0],
                  res |-> OkR("Done")]

\* Statement::column_type / Statement::read of the engine.  The index is
\* checked against the column count; with no current row the column
\* accessors are undefined by the engine and yield `undef`, an outcome the
\* caller of the model draws.
EngineCell(st, i, undef) ==
    IF i >= Len(st.cols) THEN ErrR("engine", "index out of range")
    ELSE IF st.state = "row" THEN OkR(st.rows[st.pos][i + 1])
    ELSE undef

EngineColumnName(st, i) ==
    IF i < Len(st.cols) THEN OkR(st.cols[i + 1])
    ELSE ErrR("engine", "index out of range")

\* What the column accessors may yield with no current row.
UndefOutcomes == { OkR(NullCell), ErrR("engine", "misuse") }

\* ---------------------------------------------------- SqliteStatement (src)

\* SqliteStatement::new: the engine's error becomes Other(message).
StatementNewAsIo(db, statement) ==
    LET r == EnginePrepare(db, statement)
    IN IF IsOk(r) THEN r ELSE ErrR("Io", "")

StatementNew(db, statement) ==
    LET r == EnginePrepare(db, statement)
    IN IF IsOk(r) THEN r ELSE ErrR("Other", r.msg)

column_count(st) == Len(st.cols)

\* Option<&str>: Some(name) is OkR(name), None is NoneR.
ColumnNameOrEmpty(st, i) ==
    LET r == EngineColumnName(st, i)
    IN IF IsOk(r) THEN OkR(r.val) ELSE OkR("")

column_name(st, i) ==
    LET r == EngineColumnName(st, i)
    IN IF IsOk(r) THEN OkR(r.val) ELSE NoneR

column_names(st) == st.cols

\* next(): State::Row -> true, State::Done -> false, error -> Other(msg).
NextSwapped(st, reset) ==
    LET r == EngineStep(st, reset)
    IN [stmt |-> r.stmt,
        ret |-> IF IsOk(r.res) THEN OkR(r.res.val = "Done")
                ELSE ErrR("Other", r.res.msg)]

next(st, reset) ==
    LET r == EngineStep(st, reset)
    IN [stmt |-> r.stmt,
        ret |-> IF IsOk(r.res) THEN OkR(r.res.val = "Row")
                ELSE ErrR("Other", r.res.msg)]

\* read(i): the column's runtime type decides the variant; Null reads nothing.
read(st, i, undef) ==
    LET c == EngineCell(st, i, undef)
    IN IF IsErr(c) THEN ErrR("Other", c.msg)
       ELSE IF c.val.type = "Null" THEN OkR(NullCell)
       ELSE OkR(Cell(c.val.type, c.val.val))

\* ------------------------------------------------------------ SqliteDB (src)

\* The loop of list_tables: push read(0) of every row until next() is false.
RECURSIVE ListLoop(_, _, _)
ListLoop(st, ret, reset) ==
    LET n == next(st, reset)
    IN IF IsErr(n.ret) THEN n.ret
       ELSE IF ~n.ret.val THEN OkR(ret)
       ELSE LET v == read(n.stmt, 0, ErrR("engine", "misuse"))
            IN IF IsErr(v) THEN v
               ELSE IF v.val.type # "String"
                    THEN ErrR("CastError", "")
               ELSE ListLoop(n.stmt, Append(ret, v.val.val), reset)

list_tables(db, reset) ==
    LET sts == StatementNew(db, ListTablesSql)
    IN IF IsErr(sts) THEN sts
       ELSE ListLoop(sts.val, <<>>, reset)

\* ------------------------------------------------- files and file format

Min(a, b) == IF a < b THEN a ELSE b
Max(a, b) == IF a > b THEN a ELSE b
Last(q) == q[Len(q)]

\* File::write at the handle's offset: bytes before the offset are kept (a
\* hole past the end of the file reads as zeros), bytes after the data too.
WriteAt(file, off, data) ==
    [k \in 1..Max(Len(file), off + Len(data)) |->
        IF k <= off THEN (IF k <= Len(file) THEN file[k] ELSE 0)
        ELSE IF k <= off + Len(data) THEN data[k - off]
        ELSE file[k]]

\* The rows a row byte of the file format stands for.
RowOf(b) ==
    CASE b = 1 -> <<Cell("String", "Alice"), Cell("Integer", "42")>>
      [] b = 2 -> <<Cell("String", "Bob"), Cell("Integer", "69")>>
      [] OTHER -> <<NullCell, Cell("Float", "1.5")>>

IsRowByte(b) == b # 0

RowsOf(bytes) ==
    LET used == SelectSeq(bytes, IsRowByte)
    IN [k \in 1..Len(used) |-> RowOf(used[k])]

NotADb == [kind |-> "notadb", catalog |-> <<>>, users |-> <<>>]

\* What the engine makes of a database file, as a function of its bytes.
\* The format stands for SQLite's: a zero-length file is an empty database;
\* otherwise the file starts with the header byte 9, and every later byte
\* is free space (0) or one row of table users (1..3), in insertion order.
EngineDecode(bytes) ==
    IF bytes = <<>> THEN [kind |-> "db", catalog |-> <<>>, users |-> <<>>]
    ELSE IF Head(bytes) # 9 THEN NotADb
    ELSE IF \E k \in 2..Len(bytes) : bytes[k] \notin 0..3 THEN NotADb
    ELSE [kind |-> "db",
          catalog |-> <<[type |-> "table", name |-> UsersName]>>,
          users |-> RowsOf(Tail(bytes))]

\* A file longer than the buffer: the header, free space, and one row on
\* each side of the 4096-byte boundary.
LongFile ==
    [k \in 1..(BufSize + 2) |->
        IF k = 1 THEN 9 ELSE IF k = BufSize THEN 1
        ELSE IF k = BufSize + 2 THEN 2 ELSE 0]

\* The source files of the materialization followed by a query session.
SourceFiles ==
    { <<>>, <<9>>, <<9, 1, 2>>, <<9, 2, 1>>, <<9, 1, 0, 2>>, <<9, 3, 1>>,
      <<9, 1, 1>>, <<1, 2>>, LongFile }

\* The source files of two racing materializations.
RaceFiles == { <<>>, <<9, 1>>, <<9, 2, 1>> }

\* let mut buffer = vec![0; 4096].  The state keeps the buffer up to the
\* last byte a read has stored; every byte after that is still the 0 the
\* buffer was made with.
NewBuffer == <<>>

BufferAt(buffer, k) == IF k <= Len(buffer) THEN buffer[k] ELSE 0

\* The buffer after a read that stored the n bytes of source at pos.
ReadInto(buffer, source, pos, n) ==
    [k \in 1..Max(n, Len(buffer)) |->
        IF k <= n THEN source[pos + k] ELSE buffer[k]]

\* Line 40: the slice given to write_all, &buffer[0..readed].
WriteWholeBuffer(buffer, readed) ==
    [k \in 1..BufSize |-> BufferAt(buffer, k)]

WriteSliceShort(buffer, readed) ==
    [k \in 1..(readed - 1) |-> BufferAt(buffer, k)]

WriteSlice(buffer, readed) ==
    [k \in 1..readed |-> BufferAt(buffer, k)]

\* ------------------------------------------------- SqliteDB::virtual_file

Invs == DOMAIN inv

NewInv(src) ==
    [pc |-> "start", source |-> src, vpos |-> 0, buffer |-> <<>>,
     readed |-> 0, path |-> -1, off |-> 0, result |-> NoneR,
     counts |-> <<>>, nwrites |-> 0, eof |-> FALSE, asked |-> FALSE,
     fault |-> "none", emsg |-> ""]

\* The invocation on return: the locals of the call (the buffer, the boxed
\* virtual file, tmp_file, the counts) are dropped, the result stays.
Returned(v, res, fault) ==
    [v EXCEPT !.pc = "done", !.buffer = <<>>, !.vpos = 0, !.readed = 0,
              !.off = 0, !.counts = <<>>, !.nwrites = 0,
              !.fault = fault, !.result = res]

\* let millis = ...subsec_nanos(): the nanoseconds within the second, or
\* those of Duration::from_secs(1) when the clock is before the epoch.
SubsecNanos(t, clockErr) == IF clockErr THEN 0 ELSE t % NanosPerSec

\* How far the clock may have moved since it was last read: not at all
\* (within its resolution), by a nanosecond, by a whole second.
ClockAdvance == {0, 1, NanosPerSec}

\* Lines 26-33: the buffer, the clock, the name of the temp file.
Name(i) ==
    /\ inv[i].pc = "start"
    /\ \E adv \in ClockAdvance, clockErr \in BOOLEAN :
          /\ now' = now + adv
          /\ inv' = [inv EXCEPT ![i] =
                [@ EXCEPT !.pc = "create",
                          !.buffer = NewBuffer,
                          !.path = SubsecNanos(now', clockErr)]]
    /\ UNCHANGED <<fs, faults, autoreset, curVars, tabVars>>

\* Line 34: File::create(&temp_path)? creates the file or truncates it.
Create(i) ==
    /\ inv[i].pc = "create"
    /\ \E ok \in (IF faults THEN BOOLEAN ELSE {TRUE}) :
          IF ok
          THEN /\ fs' = (inv[i].path :> <<>>) @@ fs
               /\ inv' = [inv EXCEPT ![i] = [@ EXCEPT !.pc = "read", !.off = 0]]
          ELSE /\ fs' = fs
               /\ inv' = [inv EXCEPT ![i] =
                     Returned(@, ErrR("Io", "create"), "create")]
    /\ UNCHANGED <<now, faults, autoreset, curVars, tabVars>>

\* The counts file.read(&mut buffer) may return at position vpos: 0 exactly
\* at end-of-stream, else between 1 and what the buffer and the file allow.
ReadCounts(v) ==
    LET left == Len(v.source) - v.vpos
        most == Min(BufSize, left)
    IN IF left = 0 THEN {0}
       ELSE IF Len(v.counts) < MaxShortReads
            THEN {n \in {1, 2, most} : n <= most}
            ELSE {most}

\* Lines 36-39: file.read(&mut buffer)?; break on 0.
Read(i) ==
    /\ inv[i].pc = "read"
    /\ \/ /\ faults
          /\ inv' = [inv EXCEPT ![i] =
                Returned(@, ErrR("Io", "read"), "read")]
       \/ \E n \in ReadCounts(inv[i]) :
             inv' = [inv EXCEPT ![i] =
                [@ EXCEPT !.pc = IF n = 0 THEN "open" ELSE "write",
                          !.buffer = ReadInto(@, inv[i].source, inv[i].vpos, n),
                          !.vpos = @ + n,
                          !.readed = n,
                          !.eof = (n = 0),
                          !.counts = Append(@, n)]]
    /\ UNCHANGED <<fs, now, faults, autoreset, curVars, tabVars>>

\* Line 40: tmp_file.write_all(&buffer[0..readed])?
Write(i) ==
    /\ inv[i].pc = "write"
    /\ \E ok \in (IF faults THEN BOOLEAN ELSE {TRUE}) :
          IF ok
          THEN /\ fs' = [fs EXCEPT ![inv[i].path] =
                     WriteAt(@, inv[i].off,
                             WriteSlice(inv[i].buffer, inv[i].readed))]
               /\ inv' = [inv EXCEPT ![i] =
                     [@ EXCEPT !.pc = "read",
                               !.off = @ + Len(WriteSlice(inv[i].buffer, inv[i].readed)),
                               !.nwrites = @ + 1]]
          ELSE /\ fs' = fs
               /\ inv' = [inv EXCEPT ![i] =
                     Returned(@, ErrR("Io", "write"), "write")]
    /\ UNCHANGED <<now, faults, autoreset, curVars, tabVars>>

\* What the engine may say when it cannot open the path.
EngineOpenMsgs == {"unable to open database file", "out of memory"}

\* Lines 42-46: the handle, or ForensicError::Other(e.to_string()).
OpenResultAsIo(ok, path, msg) ==
    IF ok THEN OkR(path) ELSE ErrR("Io", "")

OpenResult(ok, path, msg) ==
    IF ok THEN OkR(path) ELSE ErrR("Other", msg)

\* Lines 42-46: Connection::open_with_flags on the temp path, read-only.
Open(i) ==
    /\ inv[i].pc = "open"
    /\ \E ok \in (IF faults THEN BOOLEAN ELSE {TRUE}), m \in EngineOpenMsgs :
          /\ ~ok \/ m = "unable to open database file"
          /\ inv' = [inv EXCEPT ![i] =
                Returned([@ EXCEPT !.asked = TRUE,
                                   !.emsg = IF ok THEN "" ELSE m],
                         OpenResult(ok, inv[i].path, m),
                         IF ok THEN "none" ELSE "open")]
    /\ UNCHANGED <<fs, now, faults, autoreset, curVars, tabVars>>

\* ------------------------------------------------------- a query session

\* The two handles the same file is queried through: a connection opened
\* directly on the file (SqliteDB::new) and the one virtual_file returned.
Handles == {"direct", "virtual"}

\* The bytes of the database file behind a handle's connection.
DbBytes(h) == IF h = "direct" THEN inv[1].source ELSE fs[inv[1].result.val]

Active == {h \in Handles : stmt[h].state # "none"}

NoRead == [i |-> -1, res |-> NoneR]

\* SqlDb::prepare, on both handles, once virtual_file has returned one.
Prepare ==
    /\ inv[1].pc = "done"
    /\ IsOk(inv[1].result)
    /\ sql = ""
    /\ \E text \in {SelectUsersSql, BadSql} :
          LET r == [h \in Handles |->
                      StatementNew(EngineDecode(DbBytes(h)), text)]
          IN /\ sql' = text
             /\ prep' = [h \in Handles |->
                           IF IsOk(r[h]) THEN OkR("cursor") ELSE r[h]]
             /\ stmt' = [h \in Handles |->
                           IF IsOk(r[h]) THEN r[h].val ELSE NoStmt]
             /\ prepCols' = [h \in Handles |->
                           IF IsOk(r[h]) THEN column_names(r[h].val) ELSE <<>>]
    /\ UNCHANGED <<matVars, faults, autoreset, lastNext, lastRead, nextCalls,
                   doneSeen, afterDone, tabVars>>

\* SqlStatement::next, on the cursor of every handle.
CursorNext ==
    /\ Active # {}
    /\ \E h \in Active : nextCalls < Len(stmt[h].rows) + 1 + MaxExtraNext
    /\ LET n == [h \in Handles |-> next(stmt[h], autoreset)]
       IN /\ stmt' = [h \in Handles |->
                        IF h \in Active THEN n[h].stmt ELSE stmt[h]]
          /\ lastNext' = [h \in Handles |->
                        IF h \in Active THEN n[h].ret ELSE lastNext[h]]
          /\ afterDone' = [h \in Handles |-> h \in Active /\ doneSeen[h]]
          /\ doneSeen' = [h \in Handles |->
                        doneSeen[h] \/ (h \in Active /\ n[h].ret = OkR(FALSE))]
    /\ lastRead' = [h \in Handles |-> NoRead]
    /\ nextCalls' = nextCalls + 1
    /\ UNCHANGED <<matVars, faults, autoreset, sql, prep, prepCols, tabVars>>

\* SqlStatement::read(i), on the cursor of every handle.
CursorRead ==
    /\ Active # {}
    /\ \E i \in 0..2, u \in [Handles -> UndefOutcomes] :
          lastRead' = [h \in Handles |->
                         IF h \in Active
                         THEN [i |-> i, res |-> read(stmt[h], i, u[h])]
                         ELSE lastRead[h]]
    /\ UNCHANGED <<matVars, faults, autoreset, sql, prep, stmt, lastNext,
                   nextCalls, doneSeen, afterDone, prepCols, tabVars>>

\* ------------------------------------------------------------ list_tables

Chars(n) ==
    CASE n = "users" -> UsersName
      [] n = "sqlite_sequence" ->
            <<"s", "q", "l", "i", "t", "e", "_", "s", "e", "q", "u", "e", "n", "c", "e">>
      [] n = "sqlite_stat1" ->
            <<"s", "q", "l", "i", "t", "e", "_", "s", "t", "a", "t", "1">>
      [] n = "sqlitex" -> <<"s", "q", "l", "i", "t", "e", "x">>
      [] n = "SQLITEX" -> <<"S", "Q", "L", "I", "T", "E", "X">>
      [] n = "sqlite" -> <<"s", "q", "l", "i", "t", "e">>
      [] n = "idx" -> <<"i", "d", "x">>
      [] n = "sqlite_autoindex" ->
            <<"s", "q", "l", "i", "t", "e", "_", "a", "u", "t", "o", "i", "n", "d", "e", "x">>

\* The objects a schema catalog is drawn from.
Entries ==
    { [type |-> "table", name |-> Chars("users")],
      [type |-> "table", name |-> Chars("sqlite_sequence")],
      [type |-> "table", name |-> Chars("sqlite_stat1")],
      [type |-> "table", name |-> Chars("sqlitex")],
      [type |-> "table", name |-> Chars("SQLITEX")],
      [type |-> "table", name |-> Chars("sqlite")],
      [type |-> "index", name |-> Chars("idx")],
      [type |-> "index", name |-> Chars("sqlite_autoindex")] }

\* Catalogs: up to MaxCatalog objects, no name twice.
Catalogs ==
    UNION { { c \in [1..n -> Entries] :
                \A a, b \in 1..n : a # b => c[a].name # c[b].name }
            : n \in 0..MaxCatalog }

\* SqlDb::list_tables on a handle wrapping a connection with this catalog.
ListTables ==
    /\ tables = NoneR
    /\ catalog \in Catalogs
    /\ tables' = list_tables([kind |-> "db", catalog |-> catalog, users |-> <<>>],
                             autoreset)
    /\ UNCHANGED <<matVars, faults, autoreset, curVars, catalog>>

\* --------------------------------------------------------- specifications

InitCursor ==
    /\ sql = ""
    /\ prep = [h \in Handles |-> NoneR]
    /\ stmt = [h \in Handles |-> NoStmt]
    /\ lastNext = [h \in Handles |-> NoneR]
    /\ lastRead = [h \in Handles |-> NoRead]
    /\ nextCalls = 0
    /\ doneSeen = [h \in Handles |-> FALSE]
    /\ afterDone = [h \in Handles |-> FALSE]
    /\ prepCols = [h \in Handles |-> <<>>]

\* One materialization of a source file, then a query session on its handle
\* and on a connection opened directly on the same file.
Init ==
    /\ \E src \in SourceFiles : inv = [i \in {1} |-> NewInv(src)]
    /\ fs = <<>>
    /\ now = 1
    /\ faults = TRUE
    /\ autoreset \in BOOLEAN
    /\ InitCursor
    /\ catalog = <<>>
    /\ tables = NoneR

Next ==
    \/ \E i \in Invs : Name(i)
    \/ \E i \in Invs : Create(i)
    \/ \E i \in Invs : Read(i)
    \/ \E i \in Invs : Write(i)
    \/ \E i \in Invs : Open(i)
    \/ Prepare
    \/ CursorNext
    \/ CursorRead

Spec == Init /\ [][Next]_vars

\* list_tables over every catalog.
InitTables ==
    /\ inv = [i \in {1} |-> NewInv(<<>>)]
    /\ fs = <<>>
    /\ now = 1
    /\ faults = FALSE
    /\ autoreset \in BOOLEAN
    /\ InitCursor
    /\ catalog \in Catalogs
    /\ tables = NoneR

NextTables == ListTables

SpecTables == InitTables /\ [][NextTables]_vars

\* Two materializations, in any interleaving of their steps, without I/O
\* failures.
InitRace ==
    /\ inv \in [{1, 2} -> {NewInv(src) : src \in RaceFiles}]
    /\ fs = <<>>
    /\ now = 1
    /\ faults = FALSE
    /\ autoreset = TRUE
    /\ InitCursor
    /\ catalog = <<>>
    /\ tables = NoneR

NextRace ==
    \/ \E i \in Invs : Name(i)
    \/ \E i \in Invs : Create(i)
    \/ \E i \in Invs : Read(i)
    \/ \E i \in Invs : Write(i)
    \/ \E i \in Invs : Open(i)

SpecRace == InitRace /\ [][NextRace]_vars

\* ------------------------------------------------------------ properties

\* The rows inserted into table users of the source file, in insertion order.
Seeded == RowsOf(Tail(inv[1].source))

\* C1: on a table seeded with n rows, the k-th next() of a select-all
\* cursor returns true for k = 1..n and read(0), read(1) then return the
\* values of the k-th inserted row; the (n+1)-th next() returns false.
C1_RowsInInsertionOrder ==
    \A h \in Active :
        sql = SelectUsersSql =>
            /\ nextCalls \in 1..Len(Seeded) =>
                  /\ lastNext[h] = OkR(TRUE)
                  /\ lastRead[h].i \in 0..1 =>
                        lastRead[h].res = OkR(Seeded[nextCalls][lastRead[h].i + 1])
            /\ nextCalls = Len(Seeded) + 1 => lastNext[h] = OkR(FALSE)

\* The second row of [("Alice",42), ("Bob",69)] has been read through the
\* handle of virtual_file.
C1_Witness ==
    /\ inv[1].source = <<9, 1, 2>>
    /\ sql = SelectUsersSql
    /\ nextCalls = 2
    /\ lastRead["virtual"] = [i |-> 1, res |-> OkR(Cell("Integer", "69"))]

\* C2: once next() has returned Ok(false), every later next() on the same
\* cursor returns Ok(false).
C2_ExhaustedIsTerminal ==
    \A h \in Handles : afterDone[h] => lastNext[h] = OkR(FALSE)

\* C3: a query on the handle of virtual_file produces the same prepare
\* result, the same next() results and, while the cursor is on a row, the
\* same read(i) values as the same query on a connection opened directly on
\* the source file.
C3_RoundTrip ==
    sql # "" =>
        /\ prep["virtual"] = prep["direct"]
        /\ lastNext["virtual"] = lastNext["direct"]
        /\ lastNext["direct"] = OkR(TRUE) =>
              lastRead["virtual"] = lastRead["direct"]

\* The file longer than the buffer has been copied and its second row read
\* through the handle of virtual_file.
C3_Witness ==
    /\ inv[1].source = LongFile
    /\ nextCalls = 2
    /\ lastRead["virtual"] = [i |-> 0, res |-> OkR(Cell("String", "Bob"))]

\* A table the engine keeps for itself: its name carries the prefix sqlite_.
IsInternal(name) ==
    /\ Len(name) >= 7
    /\ SubSeq(name, 1, 7) = <<"s", "q", "l", "i", "t", "e", "_">>

RECURSIVE UserTables(_)
UserTables(cat) ==
    IF cat = <<>> THEN <<>>
    ELSE IF Head(cat).type = "table" /\ ~IsInternal(Head(cat).name)
         THEN <<Head(cat).name>> \o UserTables(Tail(cat))
         ELSE UserTables(Tail(cat))

\* C4: list_tables() returns, in catalog order, exactly the tables of the
\* catalog that do not carry the prefix sqlite_, each once, and no object
\* that is not a table.
C4_ListTablesExact ==
    tables # NoneR => tables = OkR(UserTables(catalog))

\* C5: a failure to create or write the temp file, or of the virtual file's
\* read, ends the copy at once with an I/O error and the engine is never
\* asked to open the path; a failure of the engine to open the path gives
\* Other with the engine's message; a handle is returned only after the
\* copy reached end-of-stream and the open succeeded.
C5_ErrorKinds ==
    \A i \in Invs :
        LET v == inv[i]
        IN /\ v.fault \in {"create", "read", "write"} =>
                 /\ v.pc = "done"
                 /\ IsErr(v.result)
                 /\ v.result.kind = "Io"
                 /\ ~v.asked
           /\ v.fault = "open" =>
                 /\ v.pc = "done"
                 /\ v.result = ErrR("Other", v.emsg)
           /\ IsOk(v.result) =>
                 /\ v.fault = "none"
                 /\ v.asked
                 /\ v.eof
           /\ v.pc = "done" => v.result # NoneR

\* The engine refused to open the copied file.
C5_Witness ==
    /\ inv[1].fault = "open"
    /\ inv[1].source = LongFile
    /\ inv[1].result = ErrR("Other", "out of memory")

\* C6: from a virtual file whose first read returns 0 the copy loop reads
\* once and writes nothing, virtual_file returns a handle when neither the
\* temp file nor the engine's open fails, and prepare of the select on
\* users on that handle returns an engine error.
C6_EmptySource ==
    inv[1].source = <<>> =>
        /\ Len(inv[1].counts) <= 1
        /\ inv[1].nwrites = 0
        /\ (inv[1].pc = "done" /\ inv[1].fault = "none") => IsOk(inv[1].result)
        /\ sql = SelectUsersSql =>
              /\ IsErr(prep["virtual"])
              /\ prep["virtual"].kind = "Other"

\* The select on users has been prepared on the handle of an empty file.
C6_Witness ==
    /\ inv[1].source = <<>>
    /\ inv[1].eof
    /\ sql = SelectUsersSql
    /\ prep["virtual"] = ErrR("Other", "no such table: users")

\* C7: read(i) returns Ok only when the latest next() returned true.
C7_ReadOnlyOnRow ==
    \A h \in Handles : IsOk(lastRead[h].res) => lastNext[h] = OkR(TRUE)

\* C8: in every state of a cursor, column_names() has column_count()
\* elements, its i-th element is column_name(i), column_name is absent
\* from column_count() on, and count and names are those of prepare time.
C8_ColumnsFixed ==
    \A h \in Active :
        LET st == stmt[h]
            n == column_count(st)
        IN /\ Len(column_names(st)) = n
           /\ \A i \in 0..(n - 1) :
                 column_name(st, i) = OkR(column_names(st)[i + 1])
           /\ \A i \in n..(n + 2) : column_name(st, i) = NoneR
           /\ column_names(st) = prepCols[h]
           /\ n = Len(prepCols[h])

\* A two-column cursor that has been advanced to exhaustion.
C8_Witness ==
    /\ doneSeen["virtual"]
    /\ nextCalls > 2
    /\ column_count(stmt["virtual"]) = 2

\* File::create has run in invocation i.
Created(i) == inv[i].pc \notin {"start", "create"}

\* C9: no two invocations of virtual_file create or write the same path,
\* and the file behind a returned handle holds the bytes of that handle's
\* own source.
C9_TempFileExclusive ==
    /\ \A i, j \in Invs :
          (i # j /\ Created(i) /\ Created(j)) => inv[i].path # inv[j].path
    /\ \A i \in Invs :
          IsOk(inv[i].result) => fs[inv[i].path] = inv[i].source

\* C10: reads that return n_1..n_k >= 1 and then 0 are followed by exactly
\* k writes and no further read, and the temp file holds the bytes the
\* reads stored, in order: after every write the bytes read so far, at
\* end-of-stream the whole source.
C10_CopyExact ==
    \A i \in Invs :
        LET v == inv[i]
        IN /\ \A k \in 1..(Len(v.counts) - 1) : v.counts[k] >= 1
           /\ v.pc = "read" =>
                 /\ v.nwrites = Len(v.counts)
                 /\ fs[v.path] = SubSeq(v.source, 1, v.vpos)
           /\ v.pc = "open" =>
                 /\ Last(v.counts) = 0
                 /\ v.nwrites = Len(v.counts) - 1
           /\ v.eof =>
                 /\ v.pc \in {"open", "done"}
                 /\ fs[v.path] = v.source

\* The long file was copied by a short read, a full buffer and a last byte.
C10_Witness ==
    /\ inv[1].source = LongFile
    /\ inv[1].counts = <<1, BufSize, 1, 0>>
    /\ inv[1].pc = "open"
    /\ fs[inv[1].path] = LongFile

====
